---- MODULE Spec2Model ----
(***************************************************************************)
(* Career Spark chat component (Chat, second revision in                   *)
(* src/unnamed/part_001, lines 394-1193): the retry client fetchWithRetry, *)
(* the session-title derivation, and the submission / regeneration         *)
(* handlers with the remote store they talk to.                            *)
(***************************************************************************)
EXTENDS Integers, Sequences, FiniteSets, TLC

(***************************************************************************)
(* Bounds of the model and constants of the program.                       *)
(***************************************************************************)
\* largest `retries` argument explored for fetchWithRetry
MaxAttempts == 3
\* longest user text explored for the title derivation
MaxTextLen == 60
\* user events of one run: submissions, regenerations, "New Chat" clicks and
\* sidebar selections
MaxEvents == 2
\* `retries = 3`, the default every caller of fetchWithRetry uses
DefaultRetries == 3
\* `userMessage.length > 50`, `substring(0, 50)`
TitleLimit == 50
\* `Math.pow(2, i) * 1000`
BackoffBaseMs == 1000

VARIABLES
    frRetries,   \* fetchWithRetry: the `retries` argument
    frOutcomes,  \* fetchWithRetry: what the i-th call of fetch() does
    frResult,    \* fetchWithRetry: how the call ended (NoResult before it)
    tdInput,     \* title derivation: the trimmed user text
    tdTitle,     \* title derivation: the derived title (NoResult before it)
    apiKey,        \* GEMINI_API_KEY, fixed at build time
    messages,      \* useState<Message[]>: the local log
    messageIds,    \* useState<Map<number, string>>: position (0-based) -> row id
    isLoading,     \* useState(false)
    isSaving,      \* useState(false)
    currentChatId, \* useState<string | null>
    chats,         \* remote table chats: id -> [title]
    rows,          \* remote table messages, in creation order
    nextChatId,    \* next identifier the store assigns to a chats row
    nextRowId,     \* next identifier the store assigns to a messages row
    tasks,         \* the calls of handleSubmit / handleRegenerate in flight, and the
                   \* last one that ended
    loads,         \* the calls of loadChatMessages in flight
    eventCount,    \* user events so far
    sidebarChats,  \* ChatHistorySidebar: the chats state, the displayed list
    listLoads,     \* ChatHistorySidebar: the calls of loadChats in flight
    listErrors,    \* ChatHistorySidebar: 'Error loading chats' logged so far
    nextLoad,      \* number of the next call of loadChats
    updatedOrder   \* the store: ids of the chats rows, latest updated_at first

pureVars == <<frRetries, frOutcomes, frResult, tdInput, tdTitle>>

chatVars ==
    <<apiKey, messages, messageIds, isLoading, isSaving, currentChatId, chats, rows,
      nextChatId, nextRowId, tasks, loads, eventCount>>

sidebarVars == <<sidebarChats, listLoads, listErrors, nextLoad, updatedOrder>>

vars == <<pureVars, chatVars, sidebarVars>>

NoResult == [kind |-> "none"]

(***************************************************************************)
(* fetchWithRetry                                                          *)
(***************************************************************************)
\* HTTP statuses a response can carry in the model
Statuses == {200, 204, 400, 401, 404, 429, 499, 500, 503, 599, 600}

\* messages of the values fetch() can throw
ErrorMessages ==
    {"Failed to fetch", "NetworkError when attempting to fetch resource.",
     "Load failed", "The user aborted a request."}

\* one call of fetch(): a response, a thrown Error, or a thrown non-Error value
Outcomes ==
    [kind : {"response"}, status : Statuses]
        \cup [kind : {"throw"}, isError : {TRUE}, message : ErrorMessages]
        \cup [kind : {"throw"}, isError : {FALSE}, message : {"Failed to fetch"}]

\* String.prototype.includes
Includes(s, sub) ==
    \E k \in 1..(Len(s) - Len(sub) + 1) : SubSeq(s, k, k + Len(sub) - 1) = sub

\* response.status === 429 || (response.status >= 500 && response.status < 600)
IsRetryableStatus(status) ==
    status = 429 \/ (status >= 500 /\ status < 600)

\* the transient test without `error instanceof Error`
IsTransientErrorAnyValue(o) ==
    Includes(o.message, "Failed to fetch") \/ Includes(o.message, "Network")

\* error instanceof Error && (message.includes("Failed to fetch") || message.includes("Network"))
IsTransientError(o) ==
    o.isError /\ (Includes(o.message, "Failed to fetch") \/ Includes(o.message, "Network"))

\* response.ok
IsOk(status) == status >= 200 /\ status <= 299

\* the backoff with the exponent off by one
BackoffDelayDoubled(i) == (2 ^ (i + 1)) * BackoffBaseMs

\* Math.pow(2, i) * 1000
BackoffDelay(i) == (2 ^ i) * BackoffBaseMs

\* the loop without `if (i === retries - 1) throw error` in its catch block
RECURSIVE FetchLoopNoLastRethrow(_, _, _, _)
FetchLoopNoLastRethrow(outs, i, retries, delays) ==
    IF i >= retries
    THEN [kind |-> "throw", isError |-> TRUE, message |-> "Max retries exceeded",
          attempts |-> i, delays |-> delays]
    ELSE LET o == outs[i + 1] IN
         IF o.kind = "response"
         THEN IF IsRetryableStatus(o.status) /\ i < retries - 1
              THEN FetchLoopNoLastRethrow(outs, i + 1, retries,
                                          Append(delays, BackoffDelay(i)))
              ELSE [kind |-> "return", status |-> o.status,
                    attempts |-> i + 1, delays |-> delays]
         ELSE IF IsTransientError(o)
              THEN FetchLoopNoLastRethrow(outs, i + 1, retries,
                                          Append(delays, BackoffDelay(i)))
              ELSE [kind |-> "throw", isError |-> o.isError, message |-> o.message,
                    attempts |-> i + 1, delays |-> delays]

\* the for loop of fetchWithRetry from iteration i on; `delays` are the sleeps
\* taken so far, in milliseconds
RECURSIVE FetchLoop(_, _, _, _)
FetchLoop(outs, i, retries, delays) ==
    IF i >= retries
    THEN [kind |-> "throw", isError |-> TRUE, message |-> "Max retries exceeded",
          attempts |-> i, delays |-> delays]
    ELSE LET o == outs[i + 1] IN
         IF o.kind = "response"
         THEN IF IsRetryableStatus(o.status) /\ i < retries - 1
              THEN FetchLoop(outs, i + 1, retries, Append(delays, BackoffDelay(i)))
              ELSE [kind |-> "return", status |-> o.status,
                    attempts |-> i + 1, delays |-> delays]
         ELSE IF i = retries - 1
              THEN [kind |-> "throw", isError |-> o.isError, message |-> o.message,
                    attempts |-> i + 1, delays |-> delays]
              ELSE IF IsTransientError(o)
                   THEN FetchLoop(outs, i + 1, retries, Append(delays, BackoffDelay(i)))
                   ELSE [kind |-> "throw", isError |-> o.isError, message |-> o.message,
                         attempts |-> i + 1, delays |-> delays]

fetchWithRetry(outs, retries) == FetchLoop(outs, 0, retries, <<>>)

(***************************************************************************)
(* Title derivation                                                        *)
(***************************************************************************)
\* the derivation with `>=` for `>`
DeriveTitleOffByOne(userMessage) ==
    IF Len(userMessage) >= TitleLimit
    THEN SubSeq(userMessage, 1, TitleLimit) \o "..."
    ELSE userMessage

\* userMessage.length > 50 ? userMessage.substring(0, 50) + "..." : userMessage
DeriveTitle(userMessage) ==
    IF Len(userMessage) > TitleLimit
    THEN SubSeq(userMessage, 1, TitleLimit) \o "..."
    ELSE userMessage

\* the text of n characters whose k-th, 2k-th, ... characters are "b"
RECURSIVE TextOf(_, _)
TextOf(n, k) ==
    IF n = 0 THEN ""
    ELSE TextOf(n - 1, k) \o (IF n % k = 0 THEN "b" ELSE "a")

(***************************************************************************)
(* The chat component: data                                                *)
(***************************************************************************)
\* `id?: string` absent; `saveMessage` returning null
NoId == 0
\* currentChatId === null
NoChat == 0

Greeting ==
    "Hi! I'm Career Spark, your AI career assistant. I can help you draft cover letters, prepare for interviews, update your resume, and more. What can I help you with today?"

Fallback == "I'm sorry, I couldn't generate a response. Please try again."

\* the message objects the handlers build: no `id` field
LocalMsg(role, content) == [id |-> NoId, role |-> role, content |-> content]

GreetingLog == <<LocalMsg("assistant", Greeting)>>

\* new Map()
EmptyMap == <<>>

\* new Map(prev).set(key, value)
MapSet(map, key, value) ==
    [p \in (DOMAIN map) \cup {key} |-> IF p = key THEN value ELSE map[p]]

\* map.delete(key)
MapDelete(map, key) == [p \in (DOMAIN map) \ {key} |-> map[p]]

\* String.prototype.trim, for the spaces a key can consist of
RECURSIVE Trim(_)
Trim(s) ==
    IF s = "" THEN ""
    ELSE IF SubSeq(s, 1, 1) = " " THEN Trim(SubSeq(s, 2, Len(s)))
    ELSE IF SubSeq(s, Len(s), Len(s)) = " " THEN Trim(SubSeq(s, 1, Len(s) - 1))
    ELSE s

\* !GEMINI_API_KEY || !GEMINI_API_KEY.trim()
KeyMissing(key) == key = "" \/ Trim(key) = ""

\* values of VITE_GEMINI_API_KEY
ApiKeys == {"", " ", "AIza"}

\* the trimmed, non-empty text the user submits: one long enough to be cut in
\* the title
Texts == {TextOf(MaxTextLen, 7)}

\* what fetch() does on one attempt of a model request
ChatOutcomes ==
    {[kind |-> "response", status |-> 200],
     [kind |-> "response", status |-> 503],
     [kind |-> "throw", isError |-> TRUE, message |-> "Failed to fetch"]}

\* bodies of a model response in the runs explored: the candidate text, or
\* no candidate ("error": an error object; "malformed": not JSON)
Bodies == {"text", "empty"}

ModelText == "Dear Hiring Manager, ..."

StatusText(status) ==
    CASE status = 400 -> "Bad Request"
      [] status = 503 -> "Service Unavailable"
      [] OTHER -> ""

\* errorData.error?.message || `HTTP ${response.status}: ${response.statusText}`
NotOkMessage(status, body) ==
    IF body = "error" THEN "The model is overloaded."
    ELSE "HTTP " \o ToString(status) \o ": " \o StatusText(status)

\* error instanceof Error ? error.message : "An unknown error occurred"
ErrorMessageOf(isError, message) ==
    IF isError THEN message ELSE "An unknown error occurred"

\* What the try block around the model call comes to, given what
\* fetchWithRetry did (r) and the body of the response: the assistant text
\* (ok = TRUE) or the message of the error that reaches the catch block.
ModelCall(r, body) ==
    IF r.kind = "throw"
    THEN [ok |-> FALSE, text |-> ErrorMessageOf(r.isError, r.message)]
    ELSE IF ~IsOk(r.status)
         THEN [ok |-> FALSE, text |-> NotOkMessage(r.status, body)]
         ELSE IF body = "malformed"
              THEN [ok |-> FALSE, text |-> "Unexpected end of JSON input"]
              ELSE IF body = "text"
                   THEN [ok |-> TRUE, text |-> ModelText]
                   ELSE [ok |-> TRUE, text |-> Fallback]

\* `Sorry, I ran into an error: ${errorMessage}`
ErrorContent(errorMessage) == "Sorry, I ran into an error: " \o errorMessage

\* every result the model call can have
ModelResults ==
    {ModelCall(fetchWithRetry(outs, DefaultRetries), body) :
        outs \in [1..DefaultRetries -> ChatOutcomes], body \in Bodies}

\* the rows of one chat, `.eq("chat_id", chatId).order("created_at")`
RECURSIVE RowsOf(_, _)
RowsOf(rs, chatId) ==
    IF rs = <<>> THEN <<>>
    ELSE IF Head(rs).chat_id = chatId
         THEN <<Head(rs)>> \o RowsOf(Tail(rs), chatId)
         ELSE RowsOf(Tail(rs), chatId)

\* the mapping of the rows with the identifier left out
LoadedMessagesWithoutId(data) ==
    [i \in 1..Len(data) |->
        [id |-> NoId, role |-> data[i].role, content |-> data[i].content]]

\* data.map((msg) => ({ id: msg.id, role: msg.role, content: msg.content }))
LoadedMessages(data) ==
    [i \in 1..Len(data) |->
        [id |-> data[i].id, role |-> data[i].role, content |-> data[i].content]]

\* loadedMessages.forEach((msg, index) => { if (msg.id) idsMap.set(index, msg.id) })
IdsMapOf(msgs) ==
    [p \in {i - 1 : i \in {j \in 1..Len(msgs) : msgs[j].id # NoId}} |-> msgs[p + 1].id]

\* the backward search of handleRegenerate; -1 when no user message precedes
LastUserIndexBefore(msgs, messageIndex) ==
    LET found == {i \in 0..(messageIndex - 1) : msgs[i + 1].role = "user"} IN
    IF found = {} THEN -1 ELSE CHOOSE i \in found : \A j \in found : j <= i

\* canRegenerate of the rendered message at `index`, before the isLoading test
IsLastAssistant(msgs, index) ==
    /\ index = Len(msgs) - 1
    /\ index >= 0
    /\ msgs[index + 1].role = "assistant"

\* a call of handleSubmit or handleRegenerate; `log` is the `messages` of the
\* render the handler closed over, `chatId` its chat id; `created` is the chat
\* row and `saved` are the message rows the store inserted for it, `event` the
\* number of the user event that started it. For handleEditMessage and
\* handleDeleteMessage `result` starts as the identifier the handler read from
\* messageIds; for the sidebar's handleDelete `target` is the chat to delete.
NewTask(kind, pc, text, log, chatId, index) ==
    [kind |-> kind, pc |-> pc, userMessage |-> text, log |-> log,
     chatId |-> chatId, messageIndex |-> index, result |-> NoId,
     reply |-> "", notice |-> "", outcome |-> "",
     created |-> NoChat, saved |-> <<>>, event |-> 0, target |-> NoChat]

\* newMessages built without the user message
NewMessagesWithoutUser(t) == t.log

\* newMessages of handleSubmit
NewMessages(t) == Append(t.log, LocalMsg("user", t.userMessage))

\* the slice that keeps the message after the user message as well
MessagesThroughNext(t) ==
    SubSeq(t.log, 1, LastUserIndexBefore(t.log, t.messageIndex) + 2)

\* messagesBeforeLast of handleRegenerate
MessagesBeforeLast(t) ==
    SubSeq(t.log, 1, LastUserIndexBefore(t.log, t.messageIndex) + 1)

InitChat ==
    /\ apiKey \in ApiKeys
    /\ messages = GreetingLog
    /\ messageIds = EmptyMap
    /\ isLoading = FALSE
    /\ isSaving = FALSE
    /\ currentChatId = NoChat
    /\ chats = <<>>
    /\ rows = <<>>
    /\ nextChatId = 1
    /\ nextRowId = 1
    /\ tasks = <<>>
    /\ loads = {}
    /\ eventCount = 0

\* the sidebar not mounted: nothing displayed, nothing requested
SidebarAtRest ==
    /\ sidebarChats = <<>>
    /\ listLoads = {}
    /\ listErrors = 0
    /\ nextLoad = 1
    /\ updatedOrder = <<>>

\* the retry and title harnesses at rest
InitPure ==
    /\ frRetries = DefaultRetries
    /\ frOutcomes = <<>>
    /\ frResult = NoResult
    /\ tdInput = ""
    /\ tdTitle = NoResult

(***************************************************************************)
(* The chat component: handleSubmit                                        *)
(***************************************************************************)
SetTask(k, t) == tasks' = [tasks EXCEPT ![k] = t]

IsInFlight(t) == t.pc # "done"

\* a handler is entered: its call joins those still in flight
Accept(t) ==
    /\ eventCount < MaxEvents
    /\ eventCount' = eventCount + 1
    /\ tasks' = Append(SelectSeq(tasks, IsInFlight), [t EXCEPT !.event = eventCount + 1])

\* the useEffect on [currentChatId], run when a handler sets the chat id to
\* `chatId`: a changed, non-null id starts loadChatMessages
EffectLoads(chatId) ==
    IF chatId # currentChatId /\ chatId # NoChat
    THEN loads \cup {[chatId |-> chatId, phase |-> "query", ok |-> FALSE, data |-> <<>>]}
    ELSE loads

\* handleSubmit with its guard dropped
CanSubmitAlways == TRUE

\* if (!input.trim() || isLoading) return, for a non-empty text
CanSubmit == ~isLoading

\* handleSubmit up to its first await: the user message is appended, then the
\* chat row is requested (no chat yet) or the user message row is
HandleSubmit(text) ==
    /\ CanSubmit
    /\ messages' = Append(messages, LocalMsg("user", text))
    /\ isLoading' = TRUE
    /\ IF currentChatId = NoChat
       THEN /\ isSaving' = TRUE
            /\ Accept(NewTask("submit", "createChat", text, messages, NoChat, 0))
       ELSE /\ isSaving' = isSaving
            /\ Accept(NewTask("submit", "saveUser", text, messages, currentChatId, 0))
    /\ UNCHANGED <<apiKey, messageIds, currentChatId, chats, rows, nextChatId,
                   nextRowId, loads, pureVars, sidebarVars>>

\* the store runs the insert of createOrUpdateChat, or the request fails
StoreCreateChat(k) ==
    /\ tasks[k].pc = "createChat"
    /\ \/ /\ chats' = chats @@ (nextChatId :> [title |-> DeriveTitle(tasks[k].userMessage)])
          /\ nextChatId' = nextChatId + 1
          /\ SetTask(k, [tasks[k] EXCEPT !.pc = "createChatResp",
                                         !.result = nextChatId,
                                         !.created = nextChatId])
       \/ /\ UNCHANGED <<chats, nextChatId>>
          /\ SetTask(k, [tasks[k] EXCEPT !.pc = "createChatResp", !.result = NoId])
    /\ UNCHANGED <<apiKey, messages, messageIds, isLoading, isSaving, currentChatId,
                   rows, nextRowId, loads, eventCount, pureVars, sidebarVars>>

\* handleSubmit resumed after `await createOrUpdateChat(title)`
SubmitAfterCreateChat(k) ==
    /\ tasks[k].pc = "createChatResp"
    /\ IF tasks[k].result # NoId
       THEN /\ currentChatId' = tasks[k].result
            /\ loads' = EffectLoads(tasks[k].result)
            /\ isSaving' = FALSE
            /\ isLoading' = isLoading
            /\ SetTask(k, [tasks[k] EXCEPT !.pc = "saveUser",
                                           !.chatId = tasks[k].result,
                                           !.result = NoId])
       ELSE /\ isLoading' = FALSE
            /\ isSaving' = FALSE
            /\ SetTask(k, [tasks[k] EXCEPT !.pc = "done", !.notice = "Error",
                                           !.outcome = "createFailed"])
            /\ UNCHANGED <<currentChatId, loads>>
    /\ UNCHANGED <<apiKey, messages, messageIds, chats, rows, nextChatId, nextRowId,
                   eventCount, pureVars, sidebarVars>>

\* the insert with the role fixed to "user"
RowToSaveAsUser(t) ==
    [id |-> nextRowId, chat_id |-> t.chatId, role |-> "user",
     content |-> IF t.pc = "saveUser" THEN t.userMessage ELSE t.reply]

\* the insert under the chat id the component has when the store runs it
RowToSaveUnderCurrent(t) ==
    [id |-> nextRowId, chat_id |-> currentChatId,
     role |-> IF t.pc = "saveUser" THEN "user" ELSE "assistant",
     content |-> IF t.pc = "saveUser" THEN t.userMessage ELSE t.reply]

\* what saveMessage inserts for the task at its present await
RowToSave(t) ==
    [id |-> nextRowId, chat_id |-> t.chatId,
     role |-> IF t.pc = "saveUser" THEN "user" ELSE "assistant",
     content |-> IF t.pc = "saveUser" THEN t.userMessage ELSE t.reply]

\* the store runs the insert of saveMessage (the chat row must exist), or the
\* request fails and saveMessage returns null
StoreSaveMessage(k) ==
    /\ tasks[k].pc \in {"saveUser", "saveAssistant", "saveError"}
    /\ \/ /\ tasks[k].chatId \in DOMAIN chats
          /\ rows' = Append(rows, RowToSave(tasks[k]))
          /\ nextRowId' = nextRowId + 1
          /\ SetTask(k, [tasks[k] EXCEPT !.pc = @ \o "Resp",
                                         !.result = nextRowId,
                                         !.saved = Append(@, nextRowId)])
       \/ /\ UNCHANGED <<rows, nextRowId>>
          /\ SetTask(k, [tasks[k] EXCEPT !.pc = @ \o "Resp", !.result = NoId])
    /\ UNCHANGED <<apiKey, messages, messageIds, isLoading, isSaving, currentChatId,
                   chats, nextChatId, loads, eventCount, pureVars, sidebarVars>>

\* setMessageIds((prev) => new Map(prev).set(position, id)) without `if (id)`
ReconcileAlways(position, id) == MapSet(messageIds, position, id)

\* if (id) setMessageIds((prev) => new Map(prev).set(position, id))
Reconcile(position, id) ==
    IF id # NoId THEN MapSet(messageIds, position, id) ELSE messageIds

\* handleSubmit resumed after `await saveMessage(chatId, "user", userMessage)`:
\* the identifier is attached, then the key is checked and the model called
SubmitAfterSaveUser(k) ==
    /\ tasks[k].kind = "submit"
    /\ tasks[k].pc = "saveUserResp"
    /\ messageIds' = Reconcile(Len(tasks[k].log), tasks[k].result)
    /\ IF KeyMissing(apiKey)
       THEN /\ isLoading' = FALSE
            /\ SetTask(k, [tasks[k] EXCEPT !.pc = "done",
                                           !.notice = "API Key Missing",
                                           !.outcome = "keyMissing"])
       ELSE /\ isLoading' = isLoading
            /\ SetTask(k, [tasks[k] EXCEPT !.pc = "fetch"])
    /\ UNCHANGED <<apiKey, messages, isSaving, currentChatId, chats, rows, nextChatId,
                   nextRowId, loads, eventCount, pureVars, sidebarVars>>

\* handleSubmit resumed after `await fetchWithRetry(...)`: the reply, or the
\* error message, is appended to newMessages and its row is requested
SubmitAfterFetch(k) ==
    /\ tasks[k].kind = "submit"
    /\ tasks[k].pc = "fetch"
    /\ \E m \in ModelResults :
          IF m.ok
          THEN /\ messages' = Append(NewMessages(tasks[k]), LocalMsg("assistant", m.text))
               /\ SetTask(k, [tasks[k] EXCEPT !.pc = "saveAssistant", !.reply = m.text])
          ELSE /\ messages' = Append(NewMessages(tasks[k]),
                                     LocalMsg("assistant", ErrorContent(m.text)))
               /\ SetTask(k, [tasks[k] EXCEPT !.pc = "saveError",
                                              !.reply = ErrorContent(m.text),
                                              !.notice = "Error"])
    /\ UNCHANGED <<apiKey, messageIds, isLoading, isSaving, currentChatId, chats, rows,
                   nextChatId, nextRowId, loads, eventCount, pureVars, sidebarVars>>

\* handleSubmit resumed after `await saveMessage(chatId, "assistant", aiResponse)`
SubmitAfterSaveAssistant(k) ==
    /\ tasks[k].kind = "submit"
    /\ tasks[k].pc = "saveAssistantResp"
    /\ messageIds' = Reconcile(Len(NewMessages(tasks[k])), tasks[k].result)
    /\ IF Len(tasks[k].log) = 1
       THEN /\ isLoading' = isLoading
            /\ SetTask(k, [tasks[k] EXCEPT !.pc = "updateTitle"])
       ELSE /\ isLoading' = FALSE
            /\ SetTask(k, [tasks[k] EXCEPT !.pc = "done", !.outcome = "succeeded"])
    /\ UNCHANGED <<apiKey, messages, isSaving, currentChatId, chats, rows, nextChatId,
                   nextRowId, loads, eventCount, pureVars, sidebarVars>>

\* the title update of the first exchange and the end of handleSubmit; the
\* update changes the row if the store has it and the request gets through
SubmitUpdateTitle(k) ==
    /\ tasks[k].pc = "updateTitle"
    /\ \/ /\ tasks[k].chatId \in DOMAIN chats
          /\ chats' = [chats EXCEPT ![tasks[k].chatId].title =
                                        DeriveTitle(tasks[k].userMessage)]
       \/ chats' = chats
    /\ isLoading' = FALSE
    /\ SetTask(k, [tasks[k] EXCEPT !.pc = "done", !.outcome = "succeeded"])
    /\ UNCHANGED <<apiKey, messages, messageIds, isSaving, currentChatId, rows,
                   nextChatId, nextRowId, loads, eventCount, pureVars, sidebarVars>>

\* the catch block without the `finally` that clears isLoading
SubmitAfterSaveErrorNoFinally(k) ==
    /\ tasks[k].pc = "saveErrorResp"
    /\ messageIds' = Reconcile(Len(NewMessages(tasks[k])), tasks[k].result)
    /\ SetTask(k, [tasks[k] EXCEPT !.pc = "done", !.outcome = "failed"])
    /\ UNCHANGED <<apiKey, messages, isLoading, isSaving, currentChatId, chats, rows,
                   nextChatId, nextRowId, loads, eventCount, pureVars, sidebarVars>>

\* handleSubmit resumed in its catch block after `await saveMessage(chatId,
\* "assistant", ...)` of the error message
SubmitAfterSaveError(k) ==
    /\ tasks[k].pc = "saveErrorResp"
    /\ messageIds' = Reconcile(Len(NewMessages(tasks[k])), tasks[k].result)
    /\ isLoading' = FALSE
    /\ SetTask(k, [tasks[k] EXCEPT !.pc = "done", !.outcome = "failed"])
    /\ UNCHANGED <<apiKey, messages, isSaving, currentChatId, chats, rows, nextChatId,
                   nextRowId, loads, eventCount, pureVars, sidebarVars>>

(***************************************************************************)
(* The chat component: handleRegenerate                                    *)
(***************************************************************************)
\* canRegenerate of the rendered message, and `if (isLoading) return`
CanRegenerate(messageIndex) ==
    /\ ~isLoading
    /\ IsLastAssistant(messages, messageIndex)

\* handleRegenerate up to its first await, for the button of the message at
\* `messageIndex` (rendered for the last message when it is the assistant's)
HandleRegenerate(messageIndex) ==
    /\ CanRegenerate(messageIndex)
    /\ LET t == NewTask("regenerate", "fetch", "", messages, currentChatId, messageIndex) IN
       IF LastUserIndexBefore(messages, messageIndex) = -1
       THEN /\ Accept([t EXCEPT !.pc = "done", !.outcome = "noUserMessage"])
            /\ UNCHANGED <<messages, isLoading>>
       ELSE /\ messages' = MessagesBeforeLast(t)
            /\ IF KeyMissing(apiKey)
               THEN /\ isLoading' = FALSE
                    /\ Accept([t EXCEPT !.pc = "done",
                                         !.notice = "API Key Missing",
                                         !.outcome = "keyMissing"])
               ELSE /\ isLoading' = TRUE
                    /\ Accept(t)
    /\ UNCHANGED <<apiKey, messageIds, isSaving, currentChatId, chats, rows,
                   nextChatId, nextRowId, loads, pureVars, sidebarVars>>

\* handleRegenerate resumed with a catch block that appends an error message
\* the way handleSubmit's does
RegenerateAfterFetchWithErrorMessage(k) ==
    /\ tasks[k].kind = "regenerate"
    /\ tasks[k].pc = "fetch"
    /\ \E m \in ModelResults :
          IF m.ok
          THEN /\ messages' = Append(MessagesBeforeLast(tasks[k]),
                                     LocalMsg("assistant", m.text))
               /\ IF tasks[k].chatId # NoChat
                  THEN /\ isLoading' = isLoading
                       /\ SetTask(k, [tasks[k] EXCEPT !.pc = "saveAssistant",
                                                      !.reply = m.text])
                  ELSE /\ isLoading' = FALSE
                       /\ SetTask(k, [tasks[k] EXCEPT !.pc = "done", !.reply = m.text,
                                                      !.outcome = "succeeded"])
          ELSE /\ messages' = Append(MessagesBeforeLast(tasks[k]),
                                     LocalMsg("assistant", ErrorContent(m.text)))
               /\ isLoading' = FALSE
               /\ SetTask(k, [tasks[k] EXCEPT !.pc = "done", !.notice = "Error",
                                              !.reply = m.text,
                                              !.outcome = "failed"])
    /\ UNCHANGED <<apiKey, messageIds, isSaving, currentChatId, chats, rows,
                   nextChatId, nextRowId, loads, eventCount, pureVars, sidebarVars>>

\* handleRegenerate resumed after `await fetchWithRetry(...)`
RegenerateAfterFetch(k) ==
    /\ tasks[k].kind = "regenerate"
    /\ tasks[k].pc = "fetch"
    /\ \E m \in ModelResults :
          IF m.ok
          THEN /\ messages' = Append(MessagesBeforeLast(tasks[k]),
                                     LocalMsg("assistant", m.text))
               /\ IF tasks[k].chatId # NoChat
                  THEN /\ isLoading' = isLoading
                       /\ SetTask(k, [tasks[k] EXCEPT !.pc = "saveAssistant",
                                                      !.reply = m.text])
                  ELSE /\ isLoading' = FALSE
                       /\ SetTask(k, [tasks[k] EXCEPT !.pc = "done", !.reply = m.text,
                                                      !.outcome = "succeeded"])
          ELSE /\ messages' = messages
               /\ isLoading' = FALSE
               /\ SetTask(k, [tasks[k] EXCEPT !.pc = "done", !.notice = "Error",
                                              !.reply = m.text,
                                              !.outcome = "failed"])
    /\ UNCHANGED <<apiKey, messageIds, isSaving, currentChatId, chats, rows,
                   nextChatId, nextRowId, loads, eventCount, pureVars, sidebarVars>>

\* handleRegenerate resumed after `await saveMessage(currentChatId, ...)`
RegenerateAfterSaveAssistant(k) ==
    /\ tasks[k].kind = "regenerate"
    /\ tasks[k].pc = "saveAssistantResp"
    /\ messageIds' =
          IF tasks[k].result # NoId
          THEN MapSet(MapDelete(messageIds, tasks[k].messageIndex),
                      Len(MessagesBeforeLast(tasks[k])), tasks[k].result)
          ELSE messageIds
    /\ isLoading' = FALSE
    /\ SetTask(k, [tasks[k] EXCEPT !.pc = "done", !.outcome = "succeeded"])
    /\ UNCHANGED <<apiKey, messages, isSaving, currentChatId, chats, rows, nextChatId,
                   nextRowId, loads, eventCount, pureVars, sidebarVars>>

(***************************************************************************)
(* The chat component: loadChatMessages and navigation                     *)
(***************************************************************************)
\* the store answers the select of loadChatMessages, or the request fails
StoreSelectMessages(l) ==
    /\ l.phase = "query"
    /\ \/ loads' = (loads \ {l}) \cup
                       {[l EXCEPT !.phase = "response", !.ok = TRUE,
                                  !.data = RowsOf(rows, l.chatId)]}
       \/ loads' = (loads \ {l}) \cup {[l EXCEPT !.phase = "response", !.ok = FALSE]}
    /\ UNCHANGED <<apiKey, messages, messageIds, isLoading, isSaving, currentChatId,
                   chats, rows, nextChatId, nextRowId, tasks, eventCount,
                   pureVars, sidebarVars>>

\* loadChatMessages resumed after its await
LoadChatMessagesResume(l) ==
    /\ l.phase = "response"
    /\ loads' = loads \ {l}
    /\ IF ~l.ok
       THEN UNCHANGED <<messages, messageIds>>
       ELSE IF Len(l.data) > 0
            THEN /\ messages' = LoadedMessages(l.data)
                 /\ messageIds' = IdsMapOf(LoadedMessages(l.data))
            ELSE /\ messages' = GreetingLog
                 /\ messageIds' = EmptyMap
    /\ UNCHANGED <<apiKey, isLoading, isSaving, currentChatId, chats, rows, nextChatId,
                   nextRowId, tasks, eventCount, pureVars, sidebarVars>>

\* createNewChat (the "New Chat" button)
CreateNewChat ==
    /\ eventCount < MaxEvents
    /\ eventCount' = eventCount + 1
    /\ currentChatId' = NoChat
    /\ messages' = GreetingLog
    /\ messageIds' = EmptyMap
    /\ UNCHANGED <<apiKey, isLoading, isSaving, chats, rows, nextChatId, nextRowId,
                   tasks, loads, pureVars, sidebarVars>>

\* handleChatSelect (a chat of the sidebar), with the effect it triggers
HandleChatSelect(chatId) ==
    /\ eventCount < MaxEvents
    /\ eventCount' = eventCount + 1
    /\ currentChatId' = chatId
    /\ loads' = EffectLoads(chatId)
    /\ UNCHANGED <<apiKey, messages, messageIds, isLoading, isSaving, chats, rows,
                   nextChatId, nextRowId, tasks, pureVars, sidebarVars>>

(***************************************************************************)
(* The chat component: handleEditMessage and handleDeleteMessage           *)
(***************************************************************************)
\* the text an edit puts in place of the old one
EditedText == "Please shorten my cover letter."

\* messageIds.get(index), undefined read as NoId
MapGet(map, key) == IF key \in DOMAIN map THEN map[key] ELSE NoId

\* updatedMessages[index] = { ...updatedMessages[index], content: newContent }
WithContent(msgs, index, newContent) ==
    [msgs EXCEPT ![index + 1].content = newContent]

\* messages.filter((_, i) => i !== index)
WithoutIndex(msgs, index) ==
    SubSeq(msgs, 1, index) \o SubSeq(msgs, index + 2, Len(msgs))

\* the edit and delete buttons ChatMessage renders: on user messages only
HasMessageButtons(index) ==
    /\ index \in 0..(Len(messages) - 1)
    /\ messages[index + 1].role = "user"

\* .update({ content }).eq("id", messageId)
RowsUpdated(rs, messageId, content) ==
    [i \in 1..Len(rs) |->
        IF rs[i].id = messageId THEN [rs[i] EXCEPT !.content = content] ELSE rs[i]]

\* .delete().eq("id", messageId)
RowsWithoutId(rs, messageId) ==
    LET Keep(r) == r.id # messageId IN SelectSeq(rs, Keep)

\* .delete().eq("chat_id", chatId), also the ON DELETE CASCADE of a chat row
RowsWithoutChat(rs, chatId) ==
    LET Keep(r) == r.chat_id # chatId IN SelectSeq(rs, Keep)

\* handleEditMessage up to its await: without an identifier the text changes
\* locally and the handler returns; with one the update is requested
HandleEditMessage(index, newContent) ==
    /\ HasMessageButtons(index)
    /\ LET t == NewTask("edit", "updateMessage", newContent, messages,
                        currentChatId, index) IN
       IF MapGet(messageIds, index) = NoId
       THEN /\ messages' = WithContent(messages, index, newContent)
            /\ Accept([t EXCEPT !.pc = "done", !.outcome = "localOnly"])
       ELSE /\ messages' = messages
            /\ Accept([t EXCEPT !.result = MapGet(messageIds, index)])
    /\ UNCHANGED <<apiKey, messageIds, isLoading, isSaving, currentChatId, chats,
                   rows, nextChatId, nextRowId, loads, pureVars, sidebarVars>>

\* the store runs the update of updateMessage, or the request fails
StoreUpdateMessage(k) ==
    /\ tasks[k].pc = "updateMessage"
    /\ \/ /\ rows' = RowsUpdated(rows, tasks[k].result, tasks[k].userMessage)
          /\ SetTask(k, [tasks[k] EXCEPT !.pc = "updateMessageResp"])
       \/ /\ rows' = rows
          /\ SetTask(k, [tasks[k] EXCEPT !.pc = "updateMessageResp", !.result = NoId])
    /\ UNCHANGED <<apiKey, messages, messageIds, isLoading, isSaving, currentChatId,
                   chats, nextChatId, nextRowId, loads, eventCount, pureVars, sidebarVars>>

\* the resumed handler changing the text whatever updateMessage did
EditAfterUpdateAnyway(k) ==
    /\ tasks[k].pc = "updateMessageResp"
    /\ messages' = WithContent(tasks[k].log, tasks[k].messageIndex, tasks[k].userMessage)
    /\ SetTask(k, [tasks[k] EXCEPT !.pc = "done",
                      !.outcome = IF tasks[k].result # NoId THEN "succeeded" ELSE "failed"])
    /\ UNCHANGED <<apiKey, messageIds, isLoading, isSaving, currentChatId, chats,
                   rows, nextChatId, nextRowId, loads, eventCount, pureVars, sidebarVars>>

\* handleEditMessage resumed after `await updateMessage(messageId, newContent)`
EditAfterUpdate(k) ==
    /\ tasks[k].pc = "updateMessageResp"
    /\ IF tasks[k].result # NoId
       THEN /\ messages' = WithContent(tasks[k].log, tasks[k].messageIndex,
                                       tasks[k].userMessage)
            /\ SetTask(k, [tasks[k] EXCEPT !.pc = "done", !.notice = "Success",
                                           !.outcome = "succeeded"])
       ELSE /\ messages' = messages
            /\ SetTask(k, [tasks[k] EXCEPT !.pc = "done", !.notice = "Error",
                                           !.outcome = "failed"])
    /\ UNCHANGED <<apiKey, messageIds, isLoading, isSaving, currentChatId, chats,
                   rows, nextChatId, nextRowId, loads, eventCount, pureVars, sidebarVars>>

\* handleDeleteMessage up to its await: without an identifier the message is
\* filtered out locally and the handler returns; with one the delete is
\* requested
HandleDeleteMessage(index) ==
    /\ HasMessageButtons(index)
    /\ LET t == NewTask("delete", "deleteMessage", "", messages, currentChatId, index) IN
       IF MapGet(messageIds, index) = NoId
       THEN /\ messages' = WithoutIndex(messages, index)
            /\ Accept([t EXCEPT !.pc = "done", !.outcome = "localOnly"])
       ELSE /\ messages' = messages
            /\ Accept([t EXCEPT !.result = MapGet(messageIds, index)])
    /\ UNCHANGED <<apiKey, messageIds, isLoading, isSaving, currentChatId, chats,
                   rows, nextChatId, nextRowId, loads, pureVars, sidebarVars>>

\* the store runs the delete of deleteMessage, or the request fails
StoreDeleteMessage(k) ==
    /\ tasks[k].pc = "deleteMessage"
    /\ \/ /\ rows' = RowsWithoutId(rows, tasks[k].result)
          /\ SetTask(k, [tasks[k] EXCEPT !.pc = "deleteMessageResp"])
       \/ /\ rows' = rows
          /\ SetTask(k, [tasks[k] EXCEPT !.pc = "deleteMessageResp", !.result = NoId])
    /\ UNCHANGED <<apiKey, messages, messageIds, isLoading, isSaving, currentChatId,
                   chats, nextChatId, nextRowId, loads, eventCount, pureVars, sidebarVars>>

\* the resumed handler removing the message whatever deleteMessage did
DeleteAfterDeleteAnyway(k) ==
    /\ tasks[k].pc = "deleteMessageResp"
    /\ messages' = WithoutIndex(tasks[k].log, tasks[k].messageIndex)
    /\ messageIds' = IdsMapOf(WithoutIndex(tasks[k].log, tasks[k].messageIndex))
    /\ SetTask(k, [tasks[k] EXCEPT !.pc = "done",
                      !.outcome = IF tasks[k].result # NoId THEN "succeeded" ELSE "failed"])
    /\ UNCHANGED <<apiKey, isLoading, isSaving, currentChatId, chats, rows,
                   nextChatId, nextRowId, loads, eventCount, pureVars, sidebarVars>>

\* handleDeleteMessage resumed after `await deleteMessage(messageId)`: the
\* map is rebuilt from the `id` fields of the messages that remain
DeleteAfterDelete(k) ==
    /\ tasks[k].pc = "deleteMessageResp"
    /\ IF tasks[k].result # NoId
       THEN /\ messages' = WithoutIndex(tasks[k].log, tasks[k].messageIndex)
            /\ messageIds' = IdsMapOf(WithoutIndex(tasks[k].log, tasks[k].messageIndex))
            /\ SetTask(k, [tasks[k] EXCEPT !.pc = "done", !.notice = "Success",
                                           !.outcome = "succeeded"])
       ELSE /\ UNCHANGED <<messages, messageIds>>
            /\ SetTask(k, [tasks[k] EXCEPT !.pc = "done", !.notice = "Error",
                                           !.outcome = "failed"])
    /\ UNCHANGED <<apiKey, isLoading, isSaving, currentChatId, chats, rows,
                   nextChatId, nextRowId, loads, eventCount, pureVars, sidebarVars>>

(***************************************************************************)
(* The sidebar: handleDelete                                               *)
(***************************************************************************)
\* handleDelete of ChatHistorySidebar up to its first await; `chatId` of the
\* call is the currentChatId prop of the render the handler closed over
HandleDelete(chatId) ==
    /\ chatId \in DOMAIN chats
    /\ Accept([NewTask("deleteChat", "deleteChatMessages", "", messages,
                       currentChatId, 0) EXCEPT !.target = chatId])
    /\ UNCHANGED <<apiKey, messages, messageIds, isLoading, isSaving, currentChatId,
                   chats, rows, nextChatId, nextRowId, loads, pureVars, sidebarVars>>

\* the store runs the delete of the chat's messages, or the request fails;
\* the handler does not look at the result and requests the chat's delete
StoreDeleteChatMessages(k) ==
    /\ tasks[k].pc = "deleteChatMessages"
    /\ \/ rows' = RowsWithoutChat(rows, tasks[k].target)
       \/ rows' = rows
    /\ SetTask(k, [tasks[k] EXCEPT !.pc = "deleteChat"])
    /\ UNCHANGED <<apiKey, messages, messageIds, isLoading, isSaving, currentChatId,
                   chats, nextChatId, nextRowId, loads, eventCount, pureVars, sidebarVars>>

\* the store runs the delete of the chat row, which takes the rows that
\* reference it along (ON DELETE CASCADE), or the request fails
StoreDeleteChat(k) ==
    /\ tasks[k].pc = "deleteChat"
    /\ \/ /\ chats' = [c \in (DOMAIN chats) \ {tasks[k].target} |-> chats[c]]
          /\ rows' = RowsWithoutChat(rows, tasks[k].target)
          /\ SetTask(k, [tasks[k] EXCEPT !.pc = "deleteChatResp",
                                         !.result = tasks[k].target])
       \/ /\ UNCHANGED <<chats, rows>>
          /\ SetTask(k, [tasks[k] EXCEPT !.pc = "deleteChatResp", !.result = NoId])
    /\ UNCHANGED <<apiKey, messages, messageIds, isLoading, isSaving, currentChatId,
                   nextChatId, nextRowId, loads, eventCount, pureVars, sidebarVars>>

\* the resumed handler calling onNewChat() after any successful delete
DeleteChatResumeAlwaysNew(k) ==
    /\ tasks[k].pc = "deleteChatResp"
    /\ IF tasks[k].result # NoId
       THEN /\ currentChatId' = NoChat
            /\ messages' = GreetingLog
            /\ messageIds' = EmptyMap
       ELSE UNCHANGED <<currentChatId, messages, messageIds>>
    /\ SetTask(k, [tasks[k] EXCEPT !.pc = "done",
                      !.outcome = IF tasks[k].result # NoId THEN "succeeded" ELSE "failed"])
    /\ UNCHANGED <<apiKey, isLoading, isSaving, chats, rows, nextChatId, nextRowId,
                   loads, eventCount, pureVars, sidebarVars>>

\* handleDelete resumed after the chat's delete: onNewChat() (createNewChat)
\* if the deleted chat was the current one of the handler's render
DeleteChatResume(k) ==
    /\ tasks[k].pc = "deleteChatResp"
    /\ IF tasks[k].result # NoId /\ tasks[k].target = tasks[k].chatId
       THEN /\ currentChatId' = NoChat
            /\ messages' = GreetingLog
            /\ messageIds' = EmptyMap
       ELSE UNCHANGED <<currentChatId, messages, messageIds>>
    /\ SetTask(k, [tasks[k] EXCEPT !.pc = "done",
                      !.outcome = IF tasks[k].result # NoId THEN "succeeded" ELSE "failed"])
    /\ UNCHANGED <<apiKey, isLoading, isSaving, chats, rows, nextChatId, nextRowId,
                   loads, eventCount, pureVars, sidebarVars>>

(***************************************************************************)
(* Specification of the chat component.                                    *)
(***************************************************************************)
Init == InitChat /\ InitPure /\ SidebarAtRest

TaskIds == 1..Len(tasks)

Next ==
    \/ \E text \in Texts : HandleSubmit(text)
    \/ \E k \in TaskIds : StoreCreateChat(k)
    \/ \E k \in TaskIds : SubmitAfterCreateChat(k)
    \/ \E k \in TaskIds : StoreSaveMessage(k)
    \/ \E k \in TaskIds : SubmitAfterSaveUser(k)
    \/ \E k \in TaskIds : SubmitAfterFetch(k)
    \/ \E k \in TaskIds : SubmitAfterSaveAssistant(k)
    \/ \E k \in TaskIds : SubmitUpdateTitle(k)
    \/ \E k \in TaskIds : SubmitAfterSaveError(k)
    \/ \E messageIndex \in 0..(Len(messages) - 1) : HandleRegenerate(messageIndex)
    \/ \E k \in TaskIds : RegenerateAfterFetch(k)
    \/ \E k \in TaskIds : RegenerateAfterSaveAssistant(k)
    \/ \E l \in loads : StoreSelectMessages(l)
    \/ \E l \in loads : LoadChatMessagesResume(l)
    \/ CreateNewChat
    \/ \E chatId \in DOMAIN chats : HandleChatSelect(chatId)

\* a step of a handler in flight: the store or the model answers, or the
\* handler resumes
TaskStep ==
    \E k \in TaskIds :
        \/ StoreCreateChat(k)
        \/ SubmitAfterCreateChat(k)
        \/ StoreSaveMessage(k)
        \/ SubmitAfterSaveUser(k)
        \/ SubmitAfterFetch(k)
        \/ SubmitAfterSaveAssistant(k)
        \/ SubmitUpdateTitle(k)
        \/ SubmitAfterSaveError(k)
        \/ RegenerateAfterFetch(k)
        \/ RegenerateAfterSaveAssistant(k)

Spec == Init /\ [][Next]_vars

\* every remote call in flight eventually returns or fails
FairSpec == Spec /\ WF_vars(TaskStep)

(***************************************************************************)
(* Specification of the chat component with message editing, message       *)
(* deletion and the sidebar's chat deletion, started on a store that       *)
(* already holds a chat of an earlier visit.                               *)
(***************************************************************************)
\* the title the user gave the stored chat in the sidebar
StoredTitle == "Interview prep"

\* the app as mounted (no chat selected) over a store holding one chat with
\* one exchange
InitStored ==
    /\ apiKey \in ApiKeys
    /\ messages = GreetingLog
    /\ messageIds = EmptyMap
    /\ isLoading = FALSE
    /\ isSaving = FALSE
    /\ currentChatId = NoChat
    /\ chats = (1 :> [title |-> StoredTitle])
    /\ rows = <<[id |-> 1, chat_id |-> 1, role |-> "user",
                 content |-> TextOf(MaxTextLen, 7)],
                [id |-> 2, chat_id |-> 1, role |-> "assistant",
                 content |-> ModelText]>>
    /\ nextChatId = 2
    /\ nextRowId = 3
    /\ tasks = <<>>
    /\ loads = {}
    /\ eventCount = 0
    /\ InitPure
    /\ SidebarAtRest

NextChat ==
    \/ \E text \in Texts : HandleSubmit(text)
    \/ \E k \in TaskIds : StoreCreateChat(k)
    \/ \E k \in TaskIds : SubmitAfterCreateChat(k)
    \/ \E k \in TaskIds : StoreSaveMessage(k)
    \/ \E k \in TaskIds : SubmitAfterSaveUser(k)
    \/ \E k \in TaskIds : SubmitAfterFetch(k)
    \/ \E k \in TaskIds : SubmitAfterSaveAssistant(k)
    \/ \E k \in TaskIds : SubmitUpdateTitle(k)
    \/ \E k \in TaskIds : SubmitAfterSaveError(k)
    \/ \E messageIndex \in 0..(Len(messages) - 1) : HandleRegenerate(messageIndex)
    \/ \E k \in TaskIds : RegenerateAfterFetch(k)
    \/ \E k \in TaskIds : RegenerateAfterSaveAssistant(k)
    \/ \E l \in loads : StoreSelectMessages(l)
    \/ \E l \in loads : LoadChatMessagesResume(l)
    \/ CreateNewChat
    \/ \E chatId \in DOMAIN chats : HandleChatSelect(chatId)
    \/ \E index \in 0..(Len(messages) - 1) : HandleEditMessage(index, EditedText)
    \/ \E k \in TaskIds : StoreUpdateMessage(k)
    \/ \E k \in TaskIds : EditAfterUpdate(k)
    \/ \E index \in 0..(Len(messages) - 1) : HandleDeleteMessage(index)
    \/ \E k \in TaskIds : StoreDeleteMessage(k)
    \/ \E k \in TaskIds : DeleteAfterDelete(k)
    \/ \E chatId \in DOMAIN chats : HandleDelete(chatId)
    \/ \E k \in TaskIds : StoreDeleteChatMessages(k)
    \/ \E k \in TaskIds : StoreDeleteChat(k)
    \/ \E k \in TaskIds : DeleteChatResume(k)

SpecChat == InitStored /\ [][NextChat]_vars

(***************************************************************************)
(* Specification of the navigation between stored chats alone: selecting   *)
(* chats, New Chat and the loads these start, over a store with two chats. *)
(***************************************************************************)
\* the app as mounted over a store holding two chats of earlier visits
InitTwoChats ==
    /\ apiKey \in ApiKeys
    /\ messages = GreetingLog
    /\ messageIds = EmptyMap
    /\ isLoading = FALSE
    /\ isSaving = FALSE
    /\ currentChatId = NoChat
    /\ chats = (1 :> [title |-> StoredTitle]
                @@ 2 :> [title |-> DeriveTitle(TextOf(MaxTextLen, 7))])
    /\ rows = <<[id |-> 1, chat_id |-> 1, role |-> "user",
                 content |-> TextOf(MaxTextLen, 7)],
                [id |-> 2, chat_id |-> 1, role |-> "assistant",
                 content |-> ModelText],
                [id |-> 3, chat_id |-> 2, role |-> "user",
                 content |-> TextOf(MaxTextLen, 7)],
                [id |-> 4, chat_id |-> 2, role |-> "assistant",
                 content |-> Fallback]>>
    /\ nextChatId = 3
    /\ nextRowId = 5
    /\ tasks = <<>>
    /\ loads = {}
    /\ eventCount = 0
    /\ InitPure
    /\ SidebarAtRest

NextSwitch ==
    \/ \E chatId \in DOMAIN chats : HandleChatSelect(chatId)
    \/ CreateNewChat
    \/ \E l \in loads : StoreSelectMessages(l)
    \/ \E l \in loads : LoadChatMessagesResume(l)

SpecSwitch == InitTwoChats /\ [][NextSwitch]_vars

(***************************************************************************)
(* ChatHistorySidebar: the session list, its reloads and the changes of    *)
(* the chats table notified to it.                                         *)
(***************************************************************************)
\* .limit(50) of loadChats
ListLimit == 50

\* titles the chats rows take in the sidebar specification
ListTitles == {StoredTitle, DeriveTitle(TextOf(MaxTextLen, 7))}

\* select * from chats order by updated_at desc limit 50
ChatsSnapshot ==
    [i \in 1..(IF Len(updatedOrder) < ListLimit THEN Len(updatedOrder) ELSE ListLimit) |->
        [id |-> updatedOrder[i], title |-> chats[updatedOrder[i]].title]]

\* loadChats is called: its select is on its way
StartLoadChats ==
    /\ listLoads' = listLoads \cup
                       {[n |-> nextLoad, phase |-> "query", ok |-> FALSE, data |-> <<>>]}
    /\ nextLoad' = nextLoad + 1

\* the order of the chats rows by updated_at with `chatId` taken out
OrderWithout(chatId) ==
    LET Keep(c) == c # chatId IN SelectSeq(updatedOrder, Keep)

\* a chats row is inserted by some client; the subscription callback runs
RemoteInsert(title) ==
    /\ eventCount < MaxEvents
    /\ eventCount' = eventCount + 1
    /\ chats' = chats @@ (nextChatId :> [title |-> title])
    /\ nextChatId' = nextChatId + 1
    /\ updatedOrder' = <<nextChatId>> \o updatedOrder
    /\ StartLoadChats
    /\ UNCHANGED <<apiKey, messages, messageIds, isLoading, isSaving, currentChatId,
                   rows, nextRowId, tasks, loads, sidebarChats, listErrors, pureVars>>

\* a chats row is updated by some client (the trigger sets updated_at); the
\* subscription callback runs
RemoteUpdate(chatId, title) ==
    /\ eventCount < MaxEvents
    /\ eventCount' = eventCount + 1
    /\ chatId \in DOMAIN chats
    /\ chats' = [chats EXCEPT ![chatId].title = title]
    /\ updatedOrder' = <<chatId>> \o OrderWithout(chatId)
    /\ StartLoadChats
    /\ UNCHANGED <<apiKey, messages, messageIds, isLoading, isSaving, currentChatId,
                   rows, nextChatId, nextRowId, tasks, loads, sidebarChats, listErrors,
                   pureVars>>

\* a chats row is deleted by some client (its messages go with it); the
\* subscription callback runs
RemoteDelete(chatId) ==
    /\ eventCount < MaxEvents
    /\ eventCount' = eventCount + 1
    /\ chatId \in DOMAIN chats
    /\ chats' = [c \in DOMAIN chats \ {chatId} |-> chats[c]]
    /\ rows' = RowsWithoutChat(rows, chatId)
    /\ updatedOrder' = OrderWithout(chatId)
    /\ StartLoadChats
    /\ UNCHANGED <<apiKey, messages, messageIds, isLoading, isSaving, currentChatId,
                   nextChatId, nextRowId, tasks, loads, sidebarChats, listErrors,
                   pureVars>>

\* the store answers the select of loadChats, or the request fails
StoreSelectChats(l) ==
    /\ l.phase = "query"
    /\ \/ listLoads' = (listLoads \ {l}) \cup
                          {[l EXCEPT !.phase = "response", !.ok = TRUE,
                                     !.data = ChatsSnapshot]}
       \/ listLoads' = (listLoads \ {l}) \cup {[l EXCEPT !.phase = "response"]}
    /\ UNCHANGED <<sidebarChats, listErrors, nextLoad, updatedOrder, chatVars, pureVars>>

\* loadChats resumed after its await
LoadChatsResume(l) ==
    /\ l.phase = "response"
    /\ listLoads' = listLoads \ {l}
    /\ IF l.ok
       THEN /\ sidebarChats' = l.data
            /\ listErrors' = listErrors
       ELSE /\ sidebarChats' = sidebarChats
            /\ listErrors' = listErrors + 1
    /\ UNCHANGED <<nextLoad, updatedOrder, chatVars, pureVars>>

\* the sidebar mounted over a store with one chat: its effect has subscribed
\* and its first loadChats has set the list
InitSidebar ==
    /\ apiKey \in ApiKeys
    /\ messages = GreetingLog
    /\ messageIds = EmptyMap
    /\ isLoading = FALSE
    /\ isSaving = FALSE
    /\ currentChatId = NoChat
    /\ chats = (1 :> [title |-> StoredTitle])
    /\ rows = <<[id |-> 1, chat_id |-> 1, role |-> "user",
                 content |-> TextOf(MaxTextLen, 7)],
                [id |-> 2, chat_id |-> 1, role |-> "assistant",
                 content |-> ModelText]>>
    /\ nextChatId = 2
    /\ nextRowId = 3
    /\ tasks = <<>>
    /\ loads = {}
    /\ eventCount = 0
    /\ frRetries = DefaultRetries
    /\ frOutcomes = <<>>
    /\ frResult = NoResult
    /\ tdInput = ""
    /\ tdTitle = NoResult
    /\ sidebarChats = <<[id |-> 1, title |-> StoredTitle]>>
    /\ listLoads = {}
    /\ listErrors = 0
    /\ nextLoad = 2
    /\ updatedOrder = <<1>>

NextSidebar ==
    \/ \E title \in ListTitles : RemoteInsert(title)
    \/ \E chatId \in DOMAIN chats, title \in ListTitles : RemoteUpdate(chatId, title)
    \/ \E chatId \in DOMAIN chats : RemoteDelete(chatId)
    \/ \E l \in listLoads : StoreSelectChats(l)
    \/ \E l \in listLoads : LoadChatsResume(l)

SpecSidebar == InitSidebar /\ [][NextSidebar]_vars

(***************************************************************************)
(* Specification of the retry client alone: every outcome sequence.        *)
(***************************************************************************)
InitRetry ==
    /\ frRetries \in 0..MaxAttempts
    /\ frOutcomes \in [1..frRetries -> Outcomes]
    /\ frResult = NoResult
    /\ tdInput = ""
    /\ tdTitle = NoResult
    /\ InitChat
    /\ SidebarAtRest

FetchCall ==
    /\ frResult = NoResult
    /\ frResult' = fetchWithRetry(frOutcomes, frRetries)
    /\ UNCHANGED <<frRetries, frOutcomes, tdInput, tdTitle, chatVars, sidebarVars>>

NextRetry == FetchCall

SpecRetry == InitRetry /\ [][NextRetry]_vars

(***************************************************************************)
(* Specification of the title derivation alone.                            *)
(***************************************************************************)
InitTitle ==
    /\ frRetries = DefaultRetries
    /\ frOutcomes = <<>>
    /\ frResult = NoResult
    /\ \E n \in 1..MaxTextLen, k \in {2, 7, MaxTextLen + 1} : tdInput = TextOf(n, k)
    /\ tdTitle = NoResult
    /\ InitChat
    /\ SidebarAtRest

TitleCall ==
    /\ tdTitle = NoResult
    /\ tdTitle' = [kind |-> "title", text |-> DeriveTitle(tdInput)]
    /\ UNCHANGED <<frRetries, frOutcomes, frResult, tdInput, chatVars, sidebarVars>>

NextTitle == TitleCall

SpecTitle == InitTitle /\ [][NextTitle]_vars

(***************************************************************************)
(* Claims about fetchWithRetry (checked under SpecRetry).                  *)
(***************************************************************************)
Resp(status) == [kind |-> "response", status |-> status]

FetchDone == frResult # NoResult

\* a thrown value the retry client takes for a transient network error
RecognisedTransient(o) ==
    /\ o.isError
    /\ o.message \in {"Failed to fetch", "NetworkError when attempting to fetch resource."}

\* attempts of the call that were performed, 0-based
Performed == 0..(frResult.attempts - 1)

\* C1: with maxAttempts = 3 the responses [503, 503, 200] give exactly the delays
\* 1s, 2s and the 200 is returned; [503, 503, 503] give exactly the delays 1s, 2s
\* and the third 503 is returned as a value; in general a delay of 2^i seconds
\* follows the response of attempt i iff its status is 429 or 5xx and
\* i < maxAttempts - 1.
C1_RetrySchedule ==
    FetchDone =>
        /\ (frRetries = 3 /\ frOutcomes = <<Resp(503), Resp(503), Resp(200)>>) =>
               /\ frResult.kind = "return" /\ frResult.status = 200
               /\ frResult.delays = <<1000, 2000>>
        /\ (frRetries = 3 /\ frOutcomes = <<Resp(503), Resp(503), Resp(503)>>) =>
               /\ frResult.kind = "return" /\ frResult.status = 503
               /\ frResult.attempts = 3
               /\ frResult.delays = <<1000, 2000>>
        /\ \A i \in Performed :
               frOutcomes[i + 1].kind = "response" =>
                   /\ (i + 1 <= Len(frResult.delays))
                          <=> (IsRetryableStatus(frOutcomes[i + 1].status)
                                 /\ i < frRetries - 1)
                   /\ (i + 1 <= Len(frResult.delays)) =>
                          frResult.delays[i + 1] = (2 ^ i) * 1000

C1_Witness ==
    /\ FetchDone
    /\ frRetries = 3
    /\ frOutcomes = <<Resp(503), Resp(503), Resp(503)>>
    /\ frResult.kind = "return"
    /\ Len(frResult.delays) = 2

\* C2: a response whose status is neither 429 nor 5xx is returned at once, and a
\* thrown error that is not a transient network error is rethrown at once: no
\* delay and no further attempt follow it, at any attempt index.
C2_NoRetryOfNonRetryable ==
    FetchDone =>
        \A i \in Performed :
            LET o == frOutcomes[i + 1] IN
            /\ (o.kind = "response" /\ ~IsRetryableStatus(o.status)) =>
                   /\ frResult.attempts = i + 1
                   /\ Len(frResult.delays) = i
                   /\ frResult.kind = "return" /\ frResult.status = o.status
            /\ (o.kind = "throw" /\ ~RecognisedTransient(o)) =>
                   /\ frResult.attempts = i + 1
                   /\ Len(frResult.delays) = i
                   /\ frResult.kind = "throw" /\ frResult.message = o.message
                   /\ frResult.isError = o.isError

C2_Witness ==
    /\ FetchDone
    /\ frRetries = 3
    /\ frOutcomes[1] = Resp(503)
    /\ frOutcomes[2] = [kind |-> "throw", isError |-> TRUE, message |-> "Load failed"]
    /\ frResult.kind = "throw"
    /\ frResult.attempts = 2

\* C3: a transient network error thrown by attempt i < maxAttempts - 1 is followed
\* by a delay of 2^i seconds and another attempt; an error thrown by the last
\* attempt is rethrown; no mix of transient errors and retryable statuses makes
\* more than maxAttempts attempts.
C3_TransportFailure ==
    FetchDone =>
        /\ frResult.attempts <= frRetries
        /\ \A i \in Performed :
               LET o == frOutcomes[i + 1] IN
               o.kind = "throw" =>
                   /\ (RecognisedTransient(o) /\ i < frRetries - 1) =>
                          /\ frResult.attempts > i + 1
                          /\ frResult.delays[i + 1] = (2 ^ i) * 1000
                   /\ i = frRetries - 1 =>
                          /\ frResult.kind = "throw"
                          /\ frResult.message = o.message
                          /\ frResult.isError = o.isError

C3_Witness ==
    /\ FetchDone
    /\ frRetries = 3
    /\ frOutcomes[1] = [kind |-> "throw", isError |-> TRUE, message |-> "Failed to fetch"]
    /\ frOutcomes[2] = Resp(429)
    /\ frOutcomes[3] = [kind |-> "throw", isError |-> TRUE, message |-> "Failed to fetch"]
    /\ frResult.kind = "throw"
    /\ frResult.message = "Failed to fetch"
    /\ frResult.delays = <<1000, 2000>>

\* C4: a request that keeps receiving 429 or 5xx responses is retried 3 times
\* after the initial attempt (backoff 1s, 2s, 4s) before the failure is surfaced.
C4_ThreeRetries ==
    (/\ FetchDone
     /\ frRetries = DefaultRetries
     /\ \A i \in 1..frRetries :
            frOutcomes[i].kind = "response" /\ IsRetryableStatus(frOutcomes[i].status))
        => /\ frResult.attempts = 1 + 3
           /\ frResult.delays = <<1000, 2000, 4000>>

(***************************************************************************)
(* Claims about the title derivation (checked under SpecTitle).            *)
(***************************************************************************)
TitleDone == tdTitle # NoResult

\* C5 as stated: a text shorter than 51 characters is its own title; a longer one
\* gives its first 50 characters followed by one ellipsis character, so that no
\* title is longer than 51 characters.
C5_SingleEllipsis ==
    TitleDone =>
        /\ Len(tdInput) < 51 => tdTitle.text = tdInput
        /\ Len(tdInput) >= 51 =>
               /\ SubSeq(tdTitle.text, 1, 50) = SubSeq(tdInput, 1, 50)
               /\ Len(tdTitle.text) = 51
        /\ Len(tdTitle.text) <= 51

\* C5 as amended: a text shorter than 51 characters is its own title; a longer one
\* gives its first 50 characters followed by three full stops, so that no title
\* is longer than 53 characters.
C5_ThreeDots ==
    TitleDone =>
        /\ Len(tdInput) < 51 => tdTitle.text = tdInput
        /\ Len(tdInput) >= 51 =>
               tdTitle.text = SubSeq(tdInput, 1, 50) \o "..."
        /\ Len(tdTitle.text) <= 53

C5_Witness ==
    /\ TitleDone
    /\ tdInput = TextOf(60, 61)
    /\ tdTitle.text = TextOf(50, 61) \o "..."
    /\ Len(tdTitle.text) = 53

(***************************************************************************)
(* Claims about handleSubmit and handleRegenerate (checked under Spec and  *)
(* FairSpec).                                                              *)
(***************************************************************************)
\* the message a handler appends for the text it was given
Appended(role, content) == [id |-> 0, role |-> role, content |-> content]

\* the log at submit time plus the user message
SubmittedLog(t) == Append(t.log, Appended("user", t.userMessage))

ErrorPrefix == "Sorry, I ran into an error: "

CarriesReason(content) ==
    /\ Len(content) > Len(ErrorPrefix)
    /\ SubSeq(content, 1, Len(ErrorPrefix)) = ErrorPrefix

\* task k takes a step
Steps(k) ==
    /\ tasks[k].pc # "done"
    /\ k <= Len(tasks')
    /\ tasks'[k].pc # tasks[k].pc

\* task k ends in this step
Ends(k) == Steps(k) /\ tasks'[k].pc = "done"

\* a call of handleSubmit was accepted in this step
SubmitAccepted ==
    /\ eventCount' = eventCount + 1
    /\ Len(tasks') > 0
    /\ tasks'[Len(tasks')].event = eventCount'
    /\ tasks'[Len(tasks')].kind = "submit"

\* C6 as stated: every accepted submission that ends leaves the log equal to the
\* log at submit time, plus the user message, plus exactly one assistant message:
\* the model's reply if it succeeded, a synthetic error message carrying the
\* reason if it failed in any way.
C6_EndsWithOneAssistantMessage ==
    [][\A k \in TaskIds :
          (tasks[k].kind = "submit" /\ Ends(k)) =>
              /\ Len(messages') = Len(tasks[k].log) + 2
              /\ SubSeq(messages', 1, Len(tasks[k].log) + 1) = SubmittedLog(tasks[k])
              /\ messages'[Len(messages')].role = "assistant"
              /\ IF tasks'[k].outcome = "succeeded"
                 THEN messages'[Len(messages')].content \in {ModelText, Fallback}
                 ELSE CarriesReason(messages'[Len(messages')].content)]_vars

\* C6 as amended: an accepted submission appends the user message to the log at
\* submit time; when its model call returns or fails the log is set to the log
\* at submit time, plus the user message, plus exactly one assistant message (the
\* reply, or a synthetic error message carrying the reason), and no other step
\* of the submission writes the log; a submission that ends before the model
\* call (chat creation failed, key missing) has appended no assistant message and
\* ends with a notice.
C6_OneAssistantMessageWhenModelCallEnds ==
    [][/\ SubmitAccepted =>
              /\ tasks'[Len(tasks')].log = messages
              /\ messages' = SubmittedLog(tasks'[Len(tasks')])
       /\ \A k \in TaskIds :
              (tasks[k].kind = "submit" /\ Steps(k)) =>
                  /\ tasks[k].pc = "fetch" =>
                         /\ messages' = Append(SubmittedLog(tasks[k]),
                                               Appended("assistant", tasks'[k].reply))
                         /\ tasks'[k].pc = "saveAssistant" =>
                                tasks'[k].reply \in {ModelText, Fallback}
                         /\ tasks'[k].pc = "saveError" =>
                                CarriesReason(tasks'[k].reply)
                         /\ tasks'[k].pc \in {"saveAssistant", "saveError"}
                  /\ tasks[k].pc # "fetch" => messages' = messages
                  /\ tasks'[k].pc = "done" =>
                         /\ tasks'[k].outcome \in
                                {"createFailed", "keyMissing", "succeeded", "failed"}
                         /\ tasks'[k].outcome \in {"createFailed", "keyMissing"} =>
                                tasks'[k].reply = "" /\ tasks'[k].notice # ""
                         /\ tasks'[k].outcome = "succeeded" =>
                                tasks'[k].reply \in {ModelText, Fallback}
                         /\ tasks'[k].outcome = "failed" =>
                                CarriesReason(tasks'[k].reply)]_vars

C6_Witness ==
    \E k \in TaskIds :
        /\ tasks[k].kind = "submit"
        /\ tasks[k].pc = "done"
        /\ tasks[k].outcome = "failed"
        /\ tasks[k].reply = "Sorry, I ran into an error: HTTP 503: Service Unavailable"
        /\ messages = Append(SubmittedLog(tasks[k]), Appended("assistant", tasks[k].reply))

\* calls of handleSubmit / handleRegenerate in flight
Sending ==
    {k \in TaskIds : tasks[k].kind \in {"submit", "regenerate"} /\ tasks[k].pc # "done"}

\* calls whose chat-creation request is in flight
Creating == {k \in TaskIds : tasks[k].pc \in {"createChat", "createChatResp"}}

\* C7: while a submission or regeneration is sending, isLoading is true and no
\* other submission or regeneration is accepted, so that at most one call is
\* sending and at most one chat-creation request is in flight.
C7_OneSendingAtATime ==
    /\ Cardinality(Sending) <= 1
    /\ Cardinality(Creating) <= 1
    /\ Sending # {} => isLoading

C7_Witness ==
    /\ Creating # {}
    /\ isLoading
    /\ eventCount < MaxEvents
    /\ ~ENABLED (\E text \in Texts : HandleSubmit(text))
    /\ ~ENABLED (\E messageIndex \in 0..(Len(messages) - 1) : HandleRegenerate(messageIndex))

\* C8: if every remote call eventually returns or fails, every accepted
\* submission or regeneration eventually ends with the component idle
\* (isLoading and isSaving false).
C8_EventuallyIdle ==
    (Sending # {}) ~> (Sending = {} /\ ~isLoading /\ ~isSaving)

\* an accepted call leaves the component idle at the step it ends, whatever
\* its outcome
C8_Witness ==
    \E k \in TaskIds :
        /\ tasks[k].pc = "done"
        /\ tasks[k].outcome = "createFailed"
        /\ ~isLoading
        /\ ~isSaving

\* C9: with the key absent or blank nothing is sent: no model request, and no
\* chat row or message row is written to the store.
C9_NoNetworkCallWithoutKey ==
    (apiKey = "" \/ apiKey = " ") =>
        /\ chats = <<>>
        /\ rows = <<>>
        /\ \A k \in TaskIds : tasks[k].pc # "fetch"

\* C10: a first submission of text t from NoSession with only the greeting in
\* the log, whose remote calls all succeed and during which the user does
\* nothing else, has created one chat row titled by the derivation of t, has
\* inserted for that chat one user row and then one assistant row, and leaves
\* that chat the current one.
C10_FirstSubmission ==
    \A k \in TaskIds :
        LET t == tasks[k] IN
        (/\ t.kind = "submit"
         /\ t.pc = "done"
         /\ t.outcome = "succeeded"
         /\ t.log = <<Appended("assistant", Greeting)>>
         /\ t.created # 0
         /\ Len(t.saved) = 2
         /\ eventCount = t.event) =>
            /\ currentChatId = t.created
            /\ t.created \in DOMAIN chats
            /\ chats[t.created].title =
                   (IF Len(t.userMessage) > 50
                    THEN SubSeq(t.userMessage, 1, 50) \o "..."
                    ELSE t.userMessage)
            /\ Cardinality({c \in DOMAIN chats : c >= t.created}) = 1
            /\ RowsOf(rows, t.created) =
                   <<[id |-> t.saved[1], chat_id |-> t.created, role |-> "user",
                      content |-> t.userMessage],
                     [id |-> t.saved[2], chat_id |-> t.created, role |-> "assistant",
                      content |-> t.reply]>>
            /\ t.saved[1] < t.saved[2]

C10_Witness ==
    \E k \in TaskIds :
        /\ tasks[k].kind = "submit"
        /\ tasks[k].pc = "done"
        /\ tasks[k].outcome = "succeeded"
        /\ tasks[k].log = <<Appended("assistant", Greeting)>>
        /\ tasks[k].created = 1
        /\ Len(tasks[k].saved) = 2
        /\ eventCount = tasks[k].event
        /\ currentChatId = 1
        /\ Len(chats[1].title) = 53
        /\ Len(rows) = 2

(***************************************************************************)
(* Loading a session                                                       *)
(***************************************************************************)
\* `data` is exactly the rows of the chat, in ascending creation order
IsSelectionOf(data, chatId) ==
    /\ \A i \in 1..Len(data) :
          /\ data[i].chat_id = chatId
          /\ \E j \in 1..Len(rows) : rows[j] = data[i]
    /\ \A j \in 1..Len(rows) :
          rows[j].chat_id = chatId => \E i \in 1..Len(data) : data[i] = rows[j]
    /\ \A i \in 1..Len(data) : \A j \in 1..Len(data) : i < j => data[i].id < data[j].id

\* the local log and map are those of the selection `data`
IsInstalled(data) ==
    IF Len(data) = 0
    THEN /\ messages = <<[id |-> NoId, role |-> "assistant", content |-> Greeting]>>
         /\ messageIds = <<>>
    ELSE /\ Len(messages) = Len(data)
         /\ \A i \in 1..Len(data) :
               /\ messages[i].role = data[i].role
               /\ messages[i].content = data[i].content
         /\ DOMAIN messageIds = 0..(Len(data) - 1)
         /\ \A p \in 0..(Len(data) - 1) : messageIds[p] = data[p + 1].id

\* C11: a successful load takes exactly the rows of the session in ascending
\* creation order, replaces the local log by them and gives the map an entry
\* p -> id for every position (with no rows: the one greeting without
\* identifier and an empty map); what it installs depends on the rows alone,
\* so a load that finds the log and map of an earlier load of the same rows
\* leaves both as they are.
C11_LoadReplaces ==
    [][/\ \A l \in loads :
             (l.phase = "query" /\ l \notin loads') =>
                 \A l2 \in loads' \ loads : l2.ok => IsSelectionOf(l2.data, l.chatId)
       /\ \A l \in loads :
             (l.phase = "response" /\ l.ok /\ l \notin loads') =>
                 /\ IsInstalled(l.data)'
                 /\ IsInstalled(l.data) => (messages' = messages /\ messageIds' = messageIds)
      ]_vars

\* the stored chat was selected and its load installed its two rows
C11_Witness ==
    /\ currentChatId = 1
    /\ loads = {}
    /\ tasks = <<>>
    /\ Len(messages) = 2
    /\ messages[1].id = 1 /\ messages[2].id = 2
    /\ DOMAIN messageIds = {0, 1}
    /\ messageIds[0] = 1 /\ messageIds[1] = 2

(***************************************************************************)
(* Deleting and editing a message                                          *)
(***************************************************************************)
\* the handler in flight at k goes from one await to the next, or ends
Resumes(k, from, to) ==
    /\ eventCount' = eventCount
    /\ tasks[k].pc = from
    /\ tasks'[k].pc = to

\* nothing but the call at k has touched the component since the call began
Undisturbed(k) ==
    /\ eventCount = tasks[k].event
    /\ loads = {}
    /\ \A j \in TaskIds : j # k => tasks[j].pc = "done"
    /\ messages = tasks[k].log

\* the position a message at p has once the message at `index` is gone
PositionAfterDelete(p, index) == IF p < index THEN p ELSE p - 1

\* C12 as stated: a delete at a position with a known identifier whose remote
\* delete succeeded leaves the old log without that message, and every other
\* message that had an identifier in the map (from a load or from a reconcile)
\* has that identifier in the rebuilt map at its new position.
C12_DeleteKeepsIdentifiers ==
    [][\A k \in TaskIds :
          (/\ tasks[k].kind = "delete"
           /\ Undisturbed(k)
           /\ Resumes(k, "deleteMessageResp", "done")
           /\ tasks[k].result # NoId) =>
              /\ Len(messages') = Len(messages) - 1
              /\ \A p \in 0..(Len(messages) - 1) :
                    p # tasks[k].messageIndex =>
                        messages'[PositionAfterDelete(p, tasks[k].messageIndex) + 1]
                            = messages[p + 1]
              /\ \A p \in (DOMAIN messageIds) \cap (0..(Len(messages) - 1)) :
                    p # tasks[k].messageIndex =>
                        /\ PositionAfterDelete(p, tasks[k].messageIndex) \in DOMAIN messageIds'
                        /\ messageIds'[PositionAfterDelete(p, tasks[k].messageIndex)]
                               = messageIds[p]
      ]_vars

\* a call of the given kind was accepted in this step and waits for the store
AcceptedWaiting(kind) ==
    /\ eventCount' = eventCount + 1
    /\ Len(tasks') > 0
    /\ tasks'[Len(tasks')].event = eventCount'
    /\ tasks'[Len(tasks')].kind = kind
    /\ tasks'[Len(tasks')].pc # "done"

\* C13: a delete at a position with a known identifier changes neither the
\* local log nor the map when it is accepted, and changes neither when it
\* resumes after the remote delete failed.
C13_FailedDeleteChangesNothing ==
    [][/\ AcceptedWaiting("delete") =>
             (messages' = messages /\ messageIds' = messageIds /\ rows' = rows)
       /\ \A k \in TaskIds :
             (/\ tasks[k].kind = "delete"
              /\ Resumes(k, "deleteMessageResp", "done")
              /\ tasks[k].result = NoId) =>
                 (messages' = messages /\ messageIds' = messageIds /\ rows' = rows)
      ]_vars

\* the delete of the stored chat's first message failed remotely and ended
C13_Witness ==
    \E k \in TaskIds :
        /\ tasks[k].kind = "delete"
        /\ tasks[k].pc = "done"
        /\ tasks[k].outcome = "failed"
        /\ Len(tasks[k].log) = 2
        /\ messages = tasks[k].log
        /\ DOMAIN messageIds = {0, 1}

\* a call of the given kind was accepted in this step and returned at once
AcceptedDone(kind) ==
    /\ eventCount' = eventCount + 1
    /\ Len(tasks') > 0
    /\ tasks'[Len(tasks')].event = eventCount'
    /\ tasks'[Len(tasks')].kind = kind
    /\ tasks'[Len(tasks')].pc = "done"

\* log `new` is log `old` with the text at `index` replaced: same length, same
\* roles, every other text the same
IsEditOf(new, old, index, newText) ==
    /\ Len(new) = Len(old)
    /\ \A i \in 1..Len(old) :
          /\ new[i].role = old[i].role
          /\ new[i].content = IF i = index + 1 THEN newText ELSE old[i].content

\* C14: an edit at a position with an identifier in the map changes nothing
\* locally when it is accepted; when it resumes after the update succeeded the
\* row has the new text and the log is the log of the call with the text at
\* the position replaced; when it resumes after a failure the log is
\* unchanged. An edit at a position without identifier replaces the text
\* locally, makes no remote call and returns. No step of an edit changes the
\* map; length and roles of the log are those before the edit.
C14_EditRemoteFirst ==
    [][/\ AcceptedWaiting("edit") =>
             /\ messages' = messages /\ messageIds' = messageIds /\ rows' = rows
             /\ tasks'[Len(tasks')].messageIndex \in DOMAIN messageIds
             /\ tasks'[Len(tasks')].result = messageIds[tasks'[Len(tasks')].messageIndex]
       /\ AcceptedDone("edit") =>
             /\ tasks'[Len(tasks')].messageIndex \notin DOMAIN messageIds
             /\ IsEditOf(messages', messages, tasks'[Len(tasks')].messageIndex,
                         tasks'[Len(tasks')].userMessage)
             /\ messageIds' = messageIds /\ rows' = rows
       /\ \A k \in TaskIds :
             (tasks[k].kind = "edit" /\ Resumes(k, "updateMessageResp", "done")) =>
                 /\ messageIds' = messageIds /\ rows' = rows
                 /\ IF tasks[k].result = NoId
                    THEN messages' = messages
                    ELSE /\ \A j \in 1..Len(rows) :
                               rows[j].id = tasks[k].result =>
                                   rows[j].content = tasks[k].userMessage
                         /\ IsEditOf(messages', tasks[k].log, tasks[k].messageIndex,
                                     tasks[k].userMessage)
                         /\ Undisturbed(k) =>
                               IsEditOf(messages', messages, tasks[k].messageIndex,
                                        tasks[k].userMessage)
      ]_vars

\* the first message of the stored chat was edited and the store has the text
C14_Witness ==
    \E k \in TaskIds :
        /\ tasks[k].kind = "edit"
        /\ tasks[k].pc = "done"
        /\ tasks[k].outcome = "succeeded"
        /\ eventCount = tasks[k].event
        /\ Len(messages) = 2
        /\ messages[1].content = EditedText
        /\ messages[2].content = ModelText
        /\ \E j \in 1..Len(rows) : rows[j].id = 1 /\ rows[j].content = EditedText

(***************************************************************************)
(* Regenerating a reply                                                    *)
(***************************************************************************)
\* a call of handleRegenerate was accepted in this step
RegenerateAccepted ==
    /\ eventCount' = eventCount + 1
    /\ Len(tasks') > 0
    /\ tasks'[Len(tasks')].event = eventCount'
    /\ tasks'[Len(tasks')].kind = "regenerate"

\* positions of the user messages before position p
UsersBefore(msgs, p) == {i \in 0..(p - 1) : msgs[i + 1].role = "user"}

\* the position of the nearest user message before p (there is one)
NearestUserBefore(msgs, p) ==
    CHOOSE i \in UsersBefore(msgs, p) : \A j \in UsersBefore(msgs, p) : j <= i

\* nothing but the regeneration at k has touched the component since it began
RegenerateUndisturbed(k) ==
    /\ eventCount = tasks[k].event
    /\ loads = {}
    /\ \A j \in TaskIds : j # k => tasks[j].pc = "done"

\* C15 as stated: wherever regenerate is invoked, at assistant position p, the
\* log has length p immediately after the truncation.
C15_TruncatesToPosition ==
    [][RegenerateAccepted => Len(messages') = tasks'[Len(tasks')].messageIndex]_vars

\* C15, amended: regenerate at assistant position p with a user message before
\* p truncates the log through the nearest such message, at position u (length
\* u + 1, which is p when the message at p - 1 is the user's); when the model
\* call succeeds the log is that truncated log plus one assistant message
\* (length u + 2), when it fails or the key is missing nothing is appended to
\* the log (length u + 1 still); with no user message before p (the greeting) regenerate
\* leaves the log as it is.
C15_TruncatesThroughUserMessage ==
    [][/\ RegenerateAccepted =>
             LET t == tasks'[Len(tasks')]
                 p == t.messageIndex IN
             /\ t.log = messages
             /\ p = Len(messages) - 1
             /\ messages[p + 1].role = "assistant"
             /\ IF UsersBefore(messages, p) = {}
                THEN messages' = messages /\ t.pc = "done"
                ELSE /\ messages' = SubSeq(messages, 1, NearestUserBefore(messages, p) + 1)
                     /\ messages[p].role = "user" => Len(messages') = p
       /\ \A k \in TaskIds :
             (/\ tasks[k].kind = "regenerate"
              /\ tasks'[k].pc # "fetch"
              /\ Resumes(k, "fetch", tasks'[k].pc)) =>
                 LET u == NearestUserBefore(tasks[k].log, tasks[k].messageIndex) IN
                 IF tasks'[k].outcome = "failed"
                 THEN messages' = messages
                 ELSE /\ Len(messages') = u + 2
                      /\ SubSeq(messages', 1, u + 1) = SubSeq(tasks[k].log, 1, u + 1)
                      /\ messages'[u + 2].role = "assistant"
                      /\ messages'[u + 2].content = tasks'[k].reply
       /\ \A k \in TaskIds :
             (tasks[k].kind = "regenerate" /\ Resumes(k, "saveAssistantResp", "done")) =>
                 messages' = messages
      ]_vars

\* the reply of the stored chat (position 1) was regenerated: two messages again
C15_Witness ==
    \E k \in TaskIds :
        /\ tasks[k].kind = "regenerate"
        /\ tasks[k].pc = "done"
        /\ tasks[k].outcome = "succeeded"
        /\ tasks[k].messageIndex = 1
        /\ RegenerateUndisturbed(k)
        /\ Len(messages) = 2
        /\ messages[1].role = "user"
        /\ messages[2] = [id |-> 0, role |-> "assistant", content |-> tasks[k].reply]

\* the rows the store holds for a chat, in creation order
StoredRows(chatId) ==
    LET OfChat(r) == r.chat_id = chatId IN SelectSeq(rows, OfChat)

\* the local log shows exactly the rows, in their order
MirrorsStore(chatId) ==
    /\ Len(messages) = Len(StoredRows(chatId))
    /\ \A i \in 1..Len(messages) :
          /\ messages[i].role = StoredRows(chatId)[i].role
          /\ messages[i].content = StoredRows(chatId)[i].content

\* C16 as stated: once a regeneration of a persisted assistant message of the
\* active session has succeeded (reply received and saved), with a log that
\* was loaded from the store and nothing else going on, the store holds
\* exactly the messages of the local log, in the same order.
C16_RegenerateMirrorsStore ==
    \A k \in TaskIds :
        (/\ tasks[k].kind = "regenerate"
         /\ tasks[k].pc = "done"
         /\ tasks[k].outcome = "succeeded"
         /\ tasks[k].chatId # NoChat
         /\ tasks[k].chatId = currentChatId
         /\ tasks[k].result # NoId
         /\ \A i \in 1..Len(tasks[k].log) : tasks[k].log[i].id # NoId
         /\ RegenerateUndisturbed(k)) =>
            MirrorsStore(currentChatId)

(***************************************************************************)
(* Reconciling identifiers                                                 *)
(***************************************************************************)
\* the identifiers the saves of the call returned
SavedIds(t) == {t.saved[i] : i \in 1..Len(t.saved)}

\* the map entry at p is the identifier of the row saved for the message the
\* log has at p
EntryMatchesMessage(p) ==
    /\ p < Len(messages)
    /\ \E j \in 1..Len(rows) :
          /\ rows[j].id = messageIds[p]
          /\ rows[j].role = messages[p + 1].role
          /\ rows[j].content = messages[p + 1].content

\* C17 as stated: after the first submission of a new session has ended with
\* the model's reply, with nothing else going on and the log showing the
\* greeting, the user message and the reply, the map has exactly one entry for each message whose
\* save returned an identifier, at the position the message has in the log,
\* and no other entry.
C17_OneEntryPerReconciledMessage ==
    \A k \in TaskIds :
        (/\ tasks[k].kind = "submit"
         /\ tasks[k].pc = "done"
         /\ tasks[k].outcome = "succeeded"
         /\ tasks[k].created # NoChat
         /\ eventCount = 1
         /\ loads = {}
         /\ messages = Append(SubmittedLog(tasks[k]),
                              Appended("assistant", tasks[k].reply))) =>
            /\ \A p \in DOMAIN messageIds :
                  messageIds[p] \in SavedIds(tasks[k]) /\ EntryMatchesMessage(p)
            /\ \A id \in SavedIds(tasks[k]) :
                  Cardinality({p \in DOMAIN messageIds : messageIds[p] = id}) = 1

\* the message a handler appended is still what the log has at `position`
StillAt(position, role, content) ==
    /\ position < Len(messages)
    /\ messages[position + 1].id = NoId
    /\ messages[position + 1].role = role
    /\ messages[position + 1].content = content

\* the step gives the map the entry position -> id
GivesEntry(position, id) ==
    /\ position \in DOMAIN messageIds'
    /\ messageIds'[position] = id
    /\ ~(position \in DOMAIN messageIds /\ messageIds[position] = id)

\* C18 as stated: when a save returns its identifier and the message it was
\* issued for is no longer at its position (a delete, regenerate, load, new
\* chat or chat switch removed or replaced it meanwhile), the map is not given
\* an entry for that position.
C18_ReconcileOnlyIfStillThere ==
    [][\A k \in TaskIds :
          /\ (/\ tasks[k].kind = "submit"
              /\ tasks[k].result # NoId
              /\ tasks'[k].pc # "saveUserResp"
              /\ Resumes(k, "saveUserResp", tasks'[k].pc)
              /\ ~StillAt(Len(tasks[k].log), "user", tasks[k].userMessage)) =>
                 ~GivesEntry(Len(tasks[k].log), tasks[k].result)
          /\ (/\ tasks[k].kind = "submit"
              /\ tasks[k].result # NoId
              /\ tasks'[k].pc # "saveAssistantResp"
              /\ Resumes(k, "saveAssistantResp", tasks'[k].pc)
              /\ ~StillAt(Len(tasks[k].log) + 1, "assistant", tasks[k].reply)) =>
                 ~GivesEntry(Len(tasks[k].log) + 1, tasks[k].result)
      ]_vars

(***************************************************************************)
(* Deleting a session                                                      *)
(***************************************************************************)
\* the local state of the component
Local == <<currentChatId, messages, messageIds>>

C20_TitleOnlyOfNewSession ==
    [][\A c \in (DOMAIN chats) \cap (DOMAIN chats') :
          chats'[c].title # chats[c].title =>
              \E k \in TaskIds :
                  /\ tasks[k].kind = "submit"
                  /\ tasks[k].created = c
                  /\ Resumes(k, "updateTitle", "done")
                  /\ chats'[c].title =
                        IF Len(tasks[k].userMessage) > 50
                        THEN SubSeq(tasks[k].userMessage, 1, 50) \o "..."
                        ELSE tasks[k].userMessage
      ]_vars

(***************************************************************************)
(* The index map as a whole, the backoff ceiling, operations in flight     *)
(***************************************************************************)
\* no handler and no load is in flight
Quiet ==
    /\ loads = {}
    /\ \A k \in TaskIds : tasks[k].pc = "done"

\* C21 as stated: whenever nothing is in flight, every entry p -> id of the
\* map has p inside the log, and id is the identifier of a row of the active
\* session with the role of the message the log has at p.
C21_IndexMapSound ==
    Quiet =>
        \A p \in DOMAIN messageIds :
            /\ p < Len(messages)
            /\ \A j \in 1..Len(rows) :
                  rows[j].id = messageIds[p] =>
                      /\ rows[j].role = messages[p + 1].role
                      /\ rows[j].chat_id = currentChatId

\* the time a call spent in its backoff delays, in milliseconds
RECURSIVE SumOf(_)
SumOf(delays) == IF delays = <<>> THEN 0 ELSE Head(delays) + SumOf(Tail(delays))

\* C22 as stated: with the default of 3 attempts no call waits more than
\* 1 + 2 + 4 = 7 seconds in backoff delays, and the worst case, every attempt
\* answered by a retryable status, waits exactly that long.
C22_WorstCaseSevenSeconds ==
    (FetchDone /\ frRetries = DefaultRetries) =>
        /\ SumOf(frResult.delays) <= 7000
        /\ (\A i \in 1..frRetries :
               frOutcomes[i].kind = "response" /\ frOutcomes[i].status \in {429, 500, 503})
              => SumOf(frResult.delays) = 7000

\* C23 as stated: while a submission or regeneration is sending, no edit and
\* no message delete is started.
C23_NoEditOrDeleteWhileSending ==
    [][Sending # {} =>
          ~(\/ AcceptedWaiting("edit") \/ AcceptedDone("edit")
            \/ AcceptedWaiting("delete") \/ AcceptedDone("delete"))]_vars

(***************************************************************************)
(* A submission and a change of the active session                         *)
(***************************************************************************)
\* the save of the reply, or of the error message, of a submission
ReplySaves == {"saveAssistant", "saveError"}

\* C24 as stated: whatever happened to the active session while a submission
\* for session S was sending (another session selected, a new one started, S
\* deleted), the store can take the reply under S when its save is requested.
C24_ReplyStillPersisted ==
    \A k \in TaskIds :
        (tasks[k].kind = "submit" /\ tasks[k].pc \in ReplySaves) =>
            tasks[k].chatId \in DOMAIN chats

\* C24, amended: the session S of a submission is the active session when it
\* was submitted, or the session it created, and stays that whatever the
\* active session becomes; the save of the reply (or of the error message) is
\* requested under S, and whenever the store takes it the new row is the
\* assistant's, has the reply as content and S as session id; no step writes
\* a row under a session that is not the session of the call that saved it.
\* When S was deleted meanwhile the store takes no row.
C24_ReplyUnderOwnSession ==
    [][/\ SubmitAccepted => tasks'[Len(tasks')].chatId = currentChatId
       /\ \A k \in TaskIds :
             (tasks[k].kind = "submit" /\ eventCount' = eventCount) =>
                 /\ tasks[k].chatId # NoChat => tasks'[k].chatId = tasks[k].chatId
                 /\ (tasks[k].chatId = NoChat /\ tasks'[k].chatId # NoChat) =>
                        tasks'[k].chatId = tasks'[k].created
                 /\ (tasks[k].pc \in ReplySaves /\ tasks'[k].pc # tasks[k].pc) =>
                        IF tasks'[k].result # NoId
                        THEN /\ tasks[k].chatId \in DOMAIN chats
                             /\ rows' = Append(rows, [id |-> tasks'[k].result,
                                                      chat_id |-> tasks[k].chatId,
                                                      role |-> "assistant",
                                                      content |-> tasks[k].reply])
                        ELSE rows' = rows
       /\ Len(rows') > Len(rows) =>
             \E k \in TaskIds :
                 /\ tasks'[k].pc # tasks[k].pc
                 /\ rows'[Len(rows')].chat_id = tasks[k].chatId
                 /\ tasks[k].chatId \in DOMAIN chats
      ]_vars

\* a submission made a session, the user pressed New Chat while it was
\* sending, and the reply is in the store under the session of the submission
C24_Witness ==
    \E k \in TaskIds :
        /\ tasks[k].kind = "submit"
        /\ tasks[k].pc = "done"
        /\ tasks[k].outcome = "succeeded"
        /\ tasks[k].chatId # NoChat
        /\ currentChatId = NoChat
        /\ \E j \in 1..Len(rows) :
              /\ rows[j].id = tasks[k].result
              /\ rows[j].chat_id = tasks[k].chatId
              /\ rows[j].role = "assistant"
              /\ rows[j].content = tasks[k].reply

\* C25 as stated: a step of a submission for session S taken while the active
\* session is another one (or none) changes neither the local log nor the
\* map.
C25_LandingLeavesOtherSessionAlone ==
    [][\A k \in TaskIds :
          (/\ tasks[k].kind = "submit"
           /\ eventCount' = eventCount
           /\ tasks'[k].pc # tasks[k].pc
           /\ tasks[k].chatId # NoChat
           /\ tasks[k].chatId # currentChatId) =>
              (messages' = messages /\ messageIds' = messageIds)
      ]_vars

(***************************************************************************)
(* Switching sessions while loads are in flight (checked under SpecSwitch) *)
(***************************************************************************)
\* C26 as stated: when the load that completes last is the load of a session
\* selected earlier, not of the active one, it leaves the local log and the
\* map as they are, so that another session's messages are never left
\* displayed under the active session id.
C26_LateLoadLeavesActiveSession ==
    [][\A l \in loads :
          (/\ loads = {l}
           /\ loads' = {}
           /\ l.phase = "response"
           /\ currentChatId # NoChat
           /\ l.chatId # currentChatId) =>
              (messages' = messages /\ messageIds' = messageIds)
      ]_vars

(***************************************************************************)
(* The first submission of a session and the load its new id starts        *)
(* (checked under Spec)                                                    *)
(***************************************************************************)
\* the log holds the user message of the call t
HoldsUserMessage(t) ==
    \E i \in 1..Len(messages) :
        messages[i].role = "user" /\ messages[i].content = t.userMessage

\* the log ends with the user message of t followed by its reply
EndsWithExchange(t) ==
    /\ Len(messages) >= 2
    /\ messages[Len(messages) - 1].role = "user"
    /\ messages[Len(messages) - 1].content = t.userMessage
    /\ messages[Len(messages)].role = "assistant"
    /\ messages[Len(messages)].content = t.reply

\* C27 as stated: with nothing but a first submission and the load its new
\* session id starts, (a) the user message stays in the local log until the
\* submission ends and (b) once both have completed the log ends with the user
\* message followed by the assistant reply.
C27_FirstSubmissionSurvivesLoad ==
    \A k \in TaskIds :
        (/\ tasks[k].kind = "submit"
         /\ tasks[k].created # NoChat
         /\ eventCount = 1) =>
            /\ tasks[k].pc # "done" => HoldsUserMessage(tasks[k])
            /\ (/\ tasks[k].pc = "done"
                /\ tasks[k].outcome = "succeeded"
                /\ loads = {}) => EndsWithExchange(tasks[k])

(***************************************************************************)
(* The session list under change notifications (checked under SpecSidebar) *)
(***************************************************************************)
\* C28 as stated: the reloads started by the notifications replace the
\* displayed list, and once every reload has completed (none having failed)
\* the displayed list equals the current remote list, in whatever order the
\* reloads completed.
C28_NewestListWins ==
    (listLoads = {} /\ listErrors = 0) => sidebarChats = ChatsSnapshot

(***************************************************************************)
(* Regeneration that fails (checked under Spec)                            *)
(***************************************************************************)
\* C29: a regeneration writes nothing to the store when it is accepted, and
\* when its model call fails (retries exhausted, a response that is not OK, an
\* error thrown) the step that ends it leaves the local log as the truncation
\* left it: nothing is restored, no error message is appended, the map is as
\* it was and no row or chat is written.
C29_FailedRegenerateKeepsTruncatedLog ==
    [][/\ RegenerateAccepted => (rows' = rows /\ chats' = chats)
       /\ \A k \in TaskIds :
             (/\ tasks[k].kind = "regenerate"
              /\ Resumes(k, "fetch", "done")
              /\ tasks'[k].outcome = "failed") =>
                 /\ messages' = messages
                 /\ messageIds' = messageIds
                 /\ rows' = rows
                 /\ chats' = chats
                 /\ tasks'[k].saved = <<>>
      ]_vars

\* a regeneration of the reply of the first exchange has failed: the log is
\* the greeting and the user message, the superseded reply is gone, and the
\* store holds the two rows of the submission and no other
C29_Witness ==
    \E k \in TaskIds :
        /\ tasks[k].kind = "regenerate"
        /\ tasks[k].pc = "done"
        /\ tasks[k].outcome = "failed"
        /\ tasks[k].messageIndex = 2
        /\ Len(tasks[k].log) = 3
        /\ Len(messages) = 2
        /\ \A i \in 1..2 : /\ messages[i].role = tasks[k].log[i].role
                           /\ messages[i].content = tasks[k].log[i].content
        /\ messages[2].role = "user"
        /\ tasks[k].saved = <<>>
        /\ Len(rows) = 2

(***************************************************************************)
(* Inserts that fail during a submission (checked under Spec)              *)
(***************************************************************************)
\* C30: when saveMessage returns no identifier for the user message, the
\* submission goes on as after a successful insert (to the model call, the key
\* being present), the log and the map are left as they are; the step after
\* the model call appends the reply after the user message whatever was
\* saved; and when saveMessage returns no identifier for the assistant message
\* the submission ends as a success with no notice, the log and the map left
\* as they are.
C30_FailedInsertIsSwallowed ==
    [][\A k \in TaskIds :
          /\ (/\ tasks[k].kind = "submit"
              /\ Resumes(k, "saveUserResp", tasks'[k].pc)
              /\ tasks'[k].pc # "saveUserResp"
              /\ tasks[k].result = NoId) =>
                 /\ messages' = messages
                 /\ messageIds' = messageIds
                 /\ ~KeyMissing(apiKey) => tasks'[k].pc = "fetch"
          /\ (/\ tasks[k].kind = "submit"
              /\ Resumes(k, "fetch", tasks'[k].pc)
              /\ tasks'[k].pc # "fetch") =>
                 /\ Len(messages') = Len(tasks[k].log) + 2
                 /\ SubSeq(messages', 1, Len(tasks[k].log) + 1) = SubmittedLog(tasks[k])
                 /\ messages'[Len(messages')] = Appended("assistant", tasks'[k].reply)
                 /\ messageIds' = messageIds
          /\ (/\ tasks[k].kind = "submit"
              /\ Resumes(k, "saveAssistantResp", tasks'[k].pc)
              /\ tasks'[k].pc # "saveAssistantResp"
              /\ tasks[k].result = NoId) =>
                 /\ messages' = messages
                 /\ messageIds' = messageIds
                 /\ tasks'[k].notice = ""
                 /\ tasks'[k].pc \in {"updateTitle", "done"}
                 /\ tasks'[k].pc = "done" => tasks'[k].outcome = "succeeded"
      ]_vars

\* a submission has succeeded although neither of its inserts did: the log is
\* the greeting, the user message and the reply, and the map has no entry
C30_Witness ==
    \E k \in TaskIds :
        /\ tasks[k].kind = "submit"
        /\ tasks[k].pc = "done"
        /\ tasks[k].outcome = "succeeded"
        /\ tasks[k].created # NoChat
        /\ tasks[k].saved = <<>>
        /\ rows = <<>>
        /\ messages = Append(SubmittedLog(tasks[k]), Appended("assistant", tasks[k].reply))
        /\ Len(messages) = 3
        /\ messageIds = EmptyMap

====
